---- MODULE Spec2Model ----
(***************************************************************************)
(* A model of tmux2html's renderer (src/tmux2html/main.py): the target     *)
(* selection of main(), Renderer.render_pane, the recursive pane walk      *)
(* _render_pane, the leaf renderer _render with its wrapping (_wrap_line)  *)
(* and padding rules, the tag bookkeeping (open/close) and the stylesheet  *)
(* registry (update_css/reset_css).                                        *)
(*                                                                         *)
(* Strings are sequences of one-character cells.  A colour reference is a  *)
(* sequence: <<>> is None, <<c>> an integer code, <<r,g,b>> an RGB tuple.  *)
(* The output buffer `chunks` is a sequence of records                     *)
(*   [k |-> "raw",   v |-> <<markup>>,  d |-> <<>>]   literal markup       *)
(*   [k |-> "open",  v |-> classes,     d |-> seq ]   '<span ...>'         *)
(*   [k |-> "close", v |-> <<tag>>,     d |-> <<>>]   '</span>'            *)
(*   [k |-> "text",  v |-> cells,       d |-> <<>>]   character data       *)
(***************************************************************************)
EXTENDS Integers, Sequences, FiniteSets, TLC

\* ---------------------------------------------------------------- bounds
MaxW == 3          \* pane widths 1..MaxW
MaxH == 3          \* pane heights 1..MaxH
MaxPieces == 3     \* pieces of a generated pane text
MaxRun == 5        \* length of a literal run handed to _wrap_line
MaxPasses == 2     \* calls of render_pane on one Renderer
MaxStyles == 2     \* styled runs of a generated pane text
MaxIndex == 4      \* pane indices -MaxIndex..MaxIndex of a target
MaxTurns == 3       \* iterations of _wrap_line followed for a width of 0
TreeW == 2         \* width of the leaves of a generated layout
TreeH == 1         \* height of the leaves of a generated layout

\* ------------------------------------------------------------ characters
ESC == "ESC"                       \* the byte \x1b
NL == "\n"
Digits == {"0", "1", "2", "3", "4", "5", "6", "7", "8", "9"}
DigitVal(ch) ==
    CASE ch = "0" -> 0 [] ch = "1" -> 1 [] ch = "2" -> 2 [] ch = "3" -> 3
      [] ch = "4" -> 4 [] ch = "5" -> 5 [] ch = "6" -> 6 [] ch = "7" -> 7
      [] ch = "8" -> 8 [] ch = "9" -> 9
WIDE == "U+2500"                   \* a character with code point >= 0x80
WideChars == {WIDE}
HexOrd(ch) == "2500"               \* '{:x}'.format(ord(ch)) of a wide character

None == <<>>
IsNone(c) == c = <<>>
IsInt(c) == Len(c) = 1
IsRGB(c) == Len(c) = 3

Min(a, b) == IF a < b THEN a ELSE b
Max(a, b) == IF a > b THEN a ELSE b

\* ------------------------------------------------------- Python sequences
\* s[a:b] of Python, 0-based, negative indices counted from the end.
PyIndex(i, n) == IF i < 0 THEN Max(n + i, 0) ELSE Min(i, n)
PySlice(str, a, b) ==
    LET lo == PyIndex(a, Len(str))
        hi == PyIndex(b, Len(str))
    IN IF lo >= hi THEN <<>> ELSE SubSeq(str, lo + 1, hi)
PySliceTo(str, b) == PySlice(str, 0, b)                \* s[:b]
PySliceFrom(str, a) == PySlice(str, a, Len(str))       \* s[a:]

RECURSIVE Repeat(_, _)
Repeat(cell, n) == IF n <= 0 THEN <<>> ELSE <<cell>> \o Repeat(cell, n - 1)

RECURSIVE Concat(_)
Concat(strs) == IF strs = <<>> THEN <<>> ELSE Head(strs) \o Concat(Tail(strs))

RECURSIVE JoinStr(_, _)
JoinStr(sep, strs) ==
    IF strs = <<>> THEN ""
    ELSE IF Len(strs) = 1 THEN Head(strs)
    ELSE Head(strs) \o sep \o JoinStr(sep, Tail(strs))

Contains(list, x) == \E i \in 1..Len(list) : list[i] = x

RECURSIVE Remove(_, _)
Remove(list, x) ==
    IF list = <<>> THEN <<>>
    ELSE IF Head(list) = x THEN Tail(list)
    ELSE <<Head(list)>> \o Remove(Tail(list), x)

\* s.split(sep): the pieces between the separators, always at least one.
RECURSIVE Split(_, _)
Split(str, sep) ==
    IF ~Contains(str, sep) THEN <<str>>
    ELSE LET i == CHOOSE j \in 1..Len(str) :
                     str[j] = sep /\ \A k \in 1..(j - 1) : str[k] # sep
         IN <<SubSeq(str, 1, i - 1)>> \o Split(SubSeq(str, i + 1, Len(str)), sep)

\* ---------------------------------------------------------- _escape_text
EscapeCell(ch) ==
    CASE ch = "&" -> "&amp;"
      [] ch = "<" -> "&lt;"
      [] ch = ">" -> "&gt;"
      [] ch \in WideChars ->
            "<span class=\"u\" data-glyph=\"&#x" \o HexOrd(ch) \o ";\"> </span>"
      [] OTHER -> ch
_escape_text(str) == [i \in 1..Len(str) |-> EscapeCell(str[i])]

\* ------------------------------------------------------------ the chunks
Raw(markup) == [k |-> "raw", v |-> <<markup>>, d |-> <<>>]
Text(cells) == [k |-> "text", v |-> cells, d |-> <<>>]
OpenTag(classes, seq) == [k |-> "open", v |-> classes, d |-> seq]
CloseTag(tag) == [k |-> "close", v |-> <<tag>>, d |-> <<>>]

\* ------------------------------------------------------------ _wrap_line
\* The frame of one call: the buffer, the remaining run, the column count
\* and the number of breaks made so far.
WrapFrame(chunks_, line, length) ==
    [chunks |-> chunks_, line |-> line, length |-> length, line_c |-> 0]

\* while length and length > maxlength
WrapTest(f, maxlength) == f.length # 0 /\ f.length > maxlength

\* WrapBody with the cut counted from the start of the run instead of
\* its end (length - maxlength for maxlength - length).
WrapBodyCutFromStart(f, maxlength) ==
    LET cut == f.length - maxlength
        rest == PySliceFrom(f.line, cut)
    IN [chunks |-> f.chunks \o <<Text(_escape_text(PySliceTo(f.line, cut))),
                                 Text(<<NL>>)>>,
        line |-> rest,
        length |-> Len(rest),
        line_c |-> f.line_c + 1]

\* One iteration of the loop.
WrapBody(f, maxlength) ==
    LET cut == maxlength - f.length
        rest == PySliceFrom(f.line, cut)
    IN [chunks |-> f.chunks \o <<Text(_escape_text(PySliceTo(f.line, cut))),
                                 Text(<<NL>>)>>,
        line |-> rest,
        length |-> Len(rest),
        line_c |-> f.line_c + 1]

RECURSIVE WrapLoop(_, _)
WrapLoop(f, maxlength) ==
    IF WrapTest(f, maxlength) THEN WrapLoop(WrapBody(f, maxlength), maxlength)
    ELSE f

\* Defined for maxlength >= 1 (the loop does not end for a width of 0).
_wrap_line(chunks_, line, length, maxlength) ==
    WrapLoop(WrapFrame(chunks_, line, length), maxlength)

\* ------------------------------------------------------------- the colours
\* color.term_to_rgb is not part of main.py: its result is kept symbolic.
term_to_rgb(c, style) ==
    "term_to_rgb(" \o ToString(c) \o "," \o ToString(style) \o ")"

Hex2(n) ==
    LET hexdigit(d) == CASE d < 10 -> ToString(d)
                         [] d = 10 -> "a" [] d = 11 -> "b" [] d = 12 -> "c"
                         [] d = 13 -> "d" [] d = 14 -> "e" [] OTHER -> "f"
    IN hexdigit((n \div 16) % 16) \o hexdigit(n % 16)

\* `not c` of Python for a colour reference: None, 0 and () are falsy.
PyNot(c) == IsNone(c) \/ (IsInt(c) /\ c[1] = 0)

rgbhex(c, style) ==
    IF PyNot(c) THEN "none"
    ELSE IF IsInt(c) THEN "#" \o term_to_rgb(c[1], style)
    ELSE "#" \o Hex2(c[1]) \o Hex2(c[2]) \o Hex2(c[3])

\* ------------------------------------------------------------ the registry
\* css is a dict: a sequence of [k |-> key, v |-> declarations] in insertion
\* order; assigning an existing key keeps its place.
HasKey(dict, key) == \E i \in 1..Len(dict) : dict[i].k = key
\* DictSet adding a rule at every assignment, as a list of rules would.
DictSetAppending(dict, key, value) == Append(dict, [k |-> key, v |-> value])
DictSet(dict, key, value) ==
    IF HasKey(dict, key)
    THEN [i \in 1..Len(dict) |->
            IF dict[i].k = key THEN [k |-> key, v |-> value] ELSE dict[i]]
    ELSE Append(dict, [k |-> key, v |-> value])
Keys(dict) == [i \in 1..Len(dict) |-> dict[i].k]

reset_css ==
    << [k |-> "su", v |-> <<"text-decoration:underline">>],
       [k |-> "si", v |-> <<"font-style:italic">>],
       [k |-> "sb", v |-> <<"font-weight:bold">>],
       [k |-> "ns", v |-> <<"-webkit-user-select:none", "-moz-user-select:none",
                            "-ms-user-select:none", "user-select:none">>] >>

\* The class key of a colour: the +8 promotion of a basic foreground
\* under bold happens here.
CssCode(esc_style_, prefix, color_code) ==
    IF IsInt(color_code) /\ prefix = "f" /\ Contains(esc_style_, 1)
       /\ color_code[1] < 8
    THEN <<color_code[1] + 8>>
    ELSE color_code

CssKey(prefix, code) ==
    IF IsInt(code) THEN prefix \o ToString(code[1])
    ELSE prefix \o "-rgb_" \o JoinStr("_", [i \in 1..Len(code) |-> ToString(code[i])])

\* update_css: self is the Renderer, the result its new state and the key.
update_css(self, prefix, color_code) ==
    IF IsNone(color_code) THEN [self |-> self, key |-> ""]
    ELSE LET style == IF prefix = "f" THEN "color" ELSE "background-color"
             code == CssCode(self.esc_style, prefix, color_code)
             key == CssKey(prefix, code)
             value == style \o ": " \o rgbhex(code, self.esc_style) \o ";"
         IN [self |-> [self EXCEPT !.css = DictSet(@, key, <<value>>)],
             key |-> key]

render_css(css_) ==
    [i \in 1..Len(css_) |->
        "div.tmux-html pre span." \o css_[i].k \o " {" \o JoinStr(";", css_[i].v) \o ";}"]

_style_classes(styles) ==
    (IF Contains(styles, 1) /\ ~Contains(styles, 22) THEN <<"sb">> ELSE <<>>)
    \o (IF Contains(styles, 3) /\ ~Contains(styles, 23) THEN <<"si">> ELSE <<>>)
    \o (IF Contains(styles, 4) /\ ~Contains(styles, 24) THEN <<"su">> ELSE <<>>)

\* ------------------------------------------------------------ open / close
\* (not fg or fg < 16 or fg == 39): comparing a tuple with 16 raises a
\* TypeError under Python 3 and is False under Python 2.
SuppressTest(fg) == PyNot(fg) \/ (IsInt(fg) /\ (fg[1] < 16 \/ fg[1] = 39))
SuppressRaises(self, fg) == self.py = 3 /\ IsRGB(fg)

open(self, fg_, bg_, seq, cls) ==
    LET classes0 == IF cls # "" THEN <<cls>> ELSE <<>>
        swap == Contains(self.esc_style, 7)
        fg == IF swap THEN bg_ ELSE fg_
        bg == IF swap THEN fg_ ELSE bg_
        u1 == update_css(self, "f", fg)
        classes1 == IF u1.key # "" THEN Append(classes0, u1.key) ELSE classes0
        u2 == update_css(u1.self, "b", bg)
        classes2 == IF u2.key # "" THEN Append(classes1, u2.key) ELSE classes1
        classes3 == classes2 \o _style_classes(self.esc_style)
        classes == IF SuppressTest(fg) /\ Contains(self.esc_style, 1)
                      /\ Contains(classes3, "sb")
                   THEN Remove(classes3, "sb") ELSE classes3
    IN IF SuppressRaises(self, fg)
       THEN [u2.self EXCEPT !.error = "TypeError"]
       ELSE [u2.self EXCEPT !.opened = @ + 1,
                            !.chunks = Append(@, OpenTag(classes, seq))]

\* close without the decrement of the counter when one tag is closed.
closeKeepingCount(self, closeall) ==
    IF self.opened > 0
    THEN IF closeall
         THEN [self EXCEPT !.chunks = @ \o Repeat(CloseTag("span"), self.opened),
                           !.opened = 0]
         ELSE [self EXCEPT !.chunks = Append(@, CloseTag("span"))]
    ELSE self

close(self, closeall) ==
    IF self.opened > 0
    THEN IF closeall
         THEN [self EXCEPT !.chunks = @ \o Repeat(CloseTag("span"), self.opened),
                           !.opened = 0]
         ELSE [self EXCEPT !.opened = @ - 1,
                           !.chunks = Append(@, CloseTag("span"))]
    ELSE self

\* ------------------------------------------ the calls a handler makes
\* A handler's effect on the Renderer is the sequence of its calls of
\* open, close and chunks.append/extend and its assignments of esc_style,
\* run in order; an exception ends the sequence.
Open(fg, bg, seq, cls) == [k |-> "open", fg |-> fg, bg |-> bg, seq |-> seq, cls |-> cls]
\* if not self.opened: self.open(fg, bg)
OpenIfClosed(fg, bg) == [k |-> "open?", fg |-> fg, bg |-> bg, seq |-> <<>>, cls |-> ""]
Close(closeall) == [k |-> "close", closeall |-> closeall]
Put(cs) == [k |-> "extend", cs |-> cs]
SetStyle(style) == [k |-> "style", style |-> style]

Call(self, call) ==
    CASE call.k = "open" -> open(self, call.fg, call.bg, call.seq, call.cls)
      [] call.k = "open?" ->
            IF self.opened = 0 THEN open(self, call.fg, call.bg, call.seq, call.cls)
            ELSE self
      [] call.k = "close" -> close(self, call.closeall)
      [] call.k = "extend" -> [self EXCEPT !.chunks = @ \o call.cs]
      [] call.k = "style" -> [self EXCEPT !.esc_style = call.style]

RECURSIVE Run(_, _)
Run(self, calls) ==
    IF calls = <<>> \/ self.error # "none" THEN self
    ELSE Run(Call(self, Head(calls)), Tail(calls))

\* ------------------------------------------- re.finditer(r'\x1b\[([^m]*)m')
\* A match starting at 0-based index st: ESC, '[', then the first 'm' after.
MatchAt(line, st) ==
    /\ st + 2 <= Len(line)
    /\ line[st + 1] = ESC
    /\ line[st + 2] = "["
    /\ \E j \in (st + 3)..Len(line) : line[j] = "m"
HasMatch(line, pos) == \E st \in pos..(Len(line) - 1) : MatchAt(line, st)
\* The leftmost match at or after pos: its span and its group 1.
NextMatch(line, pos) ==
    LET st == CHOOSE a \in pos..(Len(line) - 1) :
                  MatchAt(line, a) /\ \A b \in pos..(a - 1) : ~MatchAt(line, b)
        en == CHOOSE j \in (st + 3)..Len(line) :
                  line[j] = "m" /\ \A k \in (st + 3)..(j - 1) : line[k] # "m"
    IN [start |-> st, end |-> en, group |-> SubSeq(line, st + 3, en - 1)]

\* ------------------------------------------------------ color.parse_escape
\* The value of a parameter, -1 when it is not a number.
RECURSIVE DigitsVal(_, _)
DigitsVal(tok, acc) ==
    IF tok = <<>> THEN acc ELSE DigitsVal(Tail(tok), 10 * acc + DigitVal(Head(tok)))
ToCode(tok) ==
    IF tok # <<>> /\ \A i \in 1..Len(tok) : tok[i] \in Digits
    THEN DigitsVal(tok, 0) ELSE -1

ClearedBy(x) == CASE x = 22 -> 1 [] x = 23 -> 3 [] x = 24 -> 4
AddStyle(style, x) == IF Contains(style, x) THEN style ELSE Append(style, x)

\* One parameter (with the parameters it takes along) is read: what is
\* left of the codes and the state st = [fg, bg, style] after it.
ParseStep(codes, st) ==
    LET x == Head(codes)
        rest == Tail(codes)
        extended == x \in {38, 48} /\ Len(rest) >= 2 /\ rest[1] = 5 /\ rest[2] >= 0
        truecolor == x \in {38, 48} /\ Len(rest) >= 4 /\ rest[1] = 2
                     /\ \A i \in 2..4 : rest[i] >= 0
        colour == IF extended THEN <<rest[2]>> ELSE SubSeq(rest, 2, 4)
    IN CASE x = 0 ->
                [codes |-> rest, st |-> [fg |-> None, bg |-> None, style |-> <<>>]]
         [] x \in {1, 3, 4, 7} ->
                [codes |-> rest, st |-> [st EXCEPT !.style = AddStyle(@, x)]]
         [] x \in {22, 23, 24} ->
                [codes |-> rest, st |-> [st EXCEPT !.style = Remove(@, ClearedBy(x))]]
         [] x = 27 -> [codes |-> rest, st |-> [st EXCEPT !.style = Remove(@, 7)]]
         [] x \in 30..37 -> [codes |-> rest, st |-> [st EXCEPT !.fg = <<x - 30>>]]
         [] x \in 40..47 -> [codes |-> rest, st |-> [st EXCEPT !.bg = <<x - 40>>]]
         [] x \in 90..97 -> [codes |-> rest, st |-> [st EXCEPT !.fg = <<x - 90 + 8>>]]
         [] x \in 100..107 -> [codes |-> rest, st |-> [st EXCEPT !.bg = <<x - 100 + 8>>]]
         [] extended \/ truecolor ->
                [codes |-> SubSeq(rest, IF extended THEN 3 ELSE 5, Len(rest)),
                 st |-> IF x = 38 THEN [st EXCEPT !.fg = colour]
                        ELSE [st EXCEPT !.bg = colour]]
         [] x = 39 -> [codes |-> rest, st |-> [st EXCEPT !.fg = <<39>>]]
         [] x = 49 -> [codes |-> rest, st |-> [st EXCEPT !.bg = <<49>>]]
         [] OTHER -> [codes |-> rest, st |-> st]

RECURSIVE ParseCodes(_, _)
ParseCodes(codes, st) ==
    IF codes = <<>> THEN st
    ELSE LET n == ParseStep(codes, st) IN ParseCodes(n.codes, n.st)

parse_escape(seq, fg, bg, style) ==
    LET toks == Split(seq, ";")
    IN ParseCodes([i \in 1..Len(toks) |-> ToCode(toks[i])],
                  [fg |-> fg, bg |-> bg, style |-> style])

\* ---------------------------------------------------------------- the panes
Leaf(id, x, y, w, h) ==
    [identifier |-> id, x |-> x, y |-> y, size |-> <<w, h>>,
     panes |-> <<>>, vertical |-> FALSE]
SplitPane(x, y, w, h, vertical, panes) ==
    [identifier |-> -1, x |-> x, y |-> y, size |-> <<w, h>>,
     panes |-> panes, vertical |-> vertical]

\* utils.pane_list: the leaves in depth-first order.
RECURSIVE pane_list(_)
pane_list(p) ==
    IF p.panes = <<>> THEN <<p>>
    ELSE Concat([i \in 1..Len(p.panes) |-> pane_list(p.panes[i])])

\* ------------------------------------------------------------- the inputs
SGR(params) == <<ESC, "[">> \o params \o <<"m">>

RECURSIVE TextsOf(_, _)
TextsOf(pieces, n) ==
    IF n = 0 THEN {<<>>}
    ELSE LET shorter == TextsOf(pieces, n - 1)
         IN shorter \cup {t \o p : t \in shorter, p \in pieces}

\* Pane texts that exercise the grid: runs, line feeds, an SGR sequence, a
\* lone 'm' and a control sequence that is not an SGR sequence.
GridPieces ==
    { <<"a">>, <<"<", "a">>, <<NL>>, SGR(<<"1">>), <<"m">>, <<ESC, "[", "2", "J">> }
GridTexts == TextsOf(GridPieces, MaxPieces)

\* Pane texts that exercise the style state: styled one-character runs.
StyleSeqs ==
    { <<"1">>, <<"3", "0">>, <<"3", "1">>, <<"1", ";", "3", "1">>, <<"7">>, <<"3">>,
      <<"1", ";", "7">>,
      <<"3", "8", ";", "5", ";", "3", "3">>, <<"3", "8", ";", "5", ";", "3", "9">>,
      <<"3", "8", ";", "2", ";", "1", ";", "2", ";", "3">>,
      <<"4", "4">>, <<"9", "1">>, <<"3", "9">>, <<"2", "2">>, <<"0">> }
StyleUnits == {SGR(q) \o <<WIDE>> : q \in StyleSeqs}
StyleTexts == TextsOf(StyleUnits, MaxStyles)

LayoutTexts ==
    { <<>>, <<"a">>, SGR(<<"3">>) \o <<"a">>, SGR(<<"3", "1">>) \o <<"a", NL>> }

\* The layouts tmux produces: the first child of a split sits at the
\* split's own offset, each later child one divider further along the axis.
Layouts(w, h) ==
    { Leaf(0, 0, 0, w, h),
      SplitPane(0, 0, 2 * w + 1, h, FALSE,
                <<Leaf(0, 0, 0, w, h), Leaf(1, w + 1, 0, w, h)>>),
      SplitPane(0, 0, w, 2 * h + 1, TRUE,
                <<Leaf(0, 0, 0, w, h), Leaf(1, 0, h + 1, w, h)>>),
      SplitPane(0, 0, 3 * w + 2, h, FALSE,
                <<Leaf(0, 0, 0, w, h), Leaf(1, w + 1, 0, w, h),
                  Leaf(2, 2 * w + 2, 0, w, h)>>),
      SplitPane(0, 0, 2 * w + 1, 2 * h + 1, FALSE,
                <<Leaf(0, 0, 0, w, 2 * h + 1),
                  SplitPane(w + 1, 0, w, 2 * h + 1, TRUE,
                            <<Leaf(1, w + 1, 0, w, h), Leaf(2, w + 1, h + 1, w, h)>>)>>),
      SplitPane(0, 0, 2 * w + 1, 2 * h + 1, TRUE,
                <<Leaf(0, 0, 0, 2 * w + 1, h),
                  SplitPane(0, h + 1, 2 * w + 1, h, FALSE,
                            <<Leaf(1, 0, h + 1, w, h), Leaf(2, w + 1, h + 1, w, h)>>)>>) }
PaneIds == 0..2

\* ------------------------------------------------------------- the state
VARIABLES
    root,          \* utils.get_layout(window, session): the pane tree
    contents,      \* utils.get_contents: pane identifier -> captured text
    py,            \* the major version of the interpreter, 2 or 3
    pane,          \* main: the pane index of the target, <<>> when absent
    target_pane,   \* main: the pane handed to render_pane
    pc,            \* where the program is
    error,         \* the exception that ended it, "none" while it runs
    opened,        \* Renderer.opened
    chunks,        \* Renderer.chunks
    css,           \* Renderer.css
    esc_style,     \* Renderer.esc_style
    stack,         \* _render_pane: the panes, dividers and closings to come
    size,          \* _render: size
    lines,         \* _render: lines
    line_i,        \* _render: index of the logical line
    last_i,        \* _render: end of the previous match in the line
    line_l,        \* _render: columns used on the current row
    line_c,        \* _render: rows counted so far
    cur_fg,        \* _render: cur_fg
    cur_bg,        \* _render: cur_bg
    output,        \* what the calls of render_pane returned, in order
    wrap           \* one call of _wrap_line taken alone

inputVars == <<root, contents, py, pane>>
selfVars == <<opened, chunks, css, esc_style, error>>
frameVars == <<size, lines, line_i, last_i, line_l, line_c, cur_fg, cur_bg>>
vars == <<root, contents, py, pane, target_pane, pc, error, opened, chunks, css,
          esc_style, stack, size, lines, line_i, last_i, line_l, line_c,
          cur_fg, cur_bg, output, wrap>>

Self == [opened |-> opened, chunks |-> chunks, css |-> css,
         esc_style |-> esc_style, error |-> error, py |-> py]
SetSelf(r) ==
    /\ opened' = r.opened
    /\ chunks' = r.chunks
    /\ css' = r.css
    /\ esc_style' = r.esc_style
    /\ error' = r.error
Failed(r) == r.error # "none"
When(cond, calls) == IF cond THEN calls ELSE <<>>

NoWrap == [pc |-> "idle", run |-> <<>>, col |-> 0, maxlength |-> 0,
           f |-> WrapFrame(<<>>, <<>>, 0)]

\* The class attributes of Renderer and main's locals before the selection.
InitRenderer ==
    /\ pc = "main"
    /\ error = "none"
    /\ target_pane = root
    /\ opened = 0
    /\ chunks = <<>>
    /\ css = <<>>
    /\ esc_style = <<>>
    /\ stack = <<>>
    /\ size = <<0, 0>>
    /\ lines = <<>>
    /\ line_i = 0
    /\ last_i = 0
    /\ line_l = 0
    /\ line_c = 0
    /\ cur_fg = None
    /\ cur_bg = None
    /\ output = <<>>

\* One leaf pane of any size, whole window selected.
InitLeaf ==
    /\ \E w \in 1..MaxW, h \in 1..MaxH : root = Leaf(0, 0, 0, w, h)
    /\ \E t \in GridTexts : contents = [i \in PaneIds |-> t]
    /\ py = 3
    /\ pane = <<>>
    /\ wrap = NoWrap
    /\ InitRenderer

\* One leaf pane of one row, styled text.
InitStyle ==
    /\ root = Leaf(0, 0, 0, MaxW, 1)
    /\ \E t \in StyleTexts : contents = [i \in PaneIds |-> t]
    /\ py \in {2, 3}
    /\ pane = <<>>
    /\ wrap = NoWrap
    /\ InitRenderer

\* A window of up to three panes and a target with or without a pane index.
Init ==
    /\ root \in Layouts(TreeW, TreeH)
    /\ contents \in [PaneIds -> LayoutTexts]
    /\ py = 3
    /\ pane \in {<<>>} \cup {<<i>> : i \in (0 - MaxIndex)..MaxIndex}
    /\ wrap = NoWrap
    /\ InitRenderer

\* ------------------------------------------------------------------- main
\* panes[pane] of Python: indices -n..-1 count from the end, anything
\* outside -n..n-1 raises IndexError.
PyListIndexOk(i, n) == 0 - n <= i /\ i < n
PyListGet(list, i) == IF i < 0 THEN list[Len(list) + i + 1] ELSE list[i + 1]

Main ==
    /\ pc = "main"
    /\ IF pane = <<>>
       THEN /\ target_pane' = root
            /\ pc' = "ready"
            /\ error' = error
       ELSE LET panes == pane_list(root)
            IN IF PyListIndexOk(pane[1], Len(panes))
               THEN /\ target_pane' = PyListGet(panes, pane[1])
                    /\ pc' = "ready"
                    /\ error' = error
               ELSE /\ target_pane' = target_pane
                    /\ pc' = "failed"
                    /\ error' = "IndexError"
    /\ UNCHANGED <<inputVars, opened, chunks, css, esc_style, stack, frameVars,
                   output, wrap>>

\* ------------------------------------------------------------ render_pane
PaneItem(p) == [op |-> "pane", pane |-> p, vertical |-> FALSE, n |-> 0]
SepItem(p, vertical, n) == [op |-> "sep", pane |-> p, vertical |-> vertical, n |-> n]
EndItem(p) == [op |-> "end", pane |-> p, vertical |-> FALSE, n |-> 0]

\* BeginPass without the reset of the chunk buffer.
BeginPassKeepingChunks ==
    /\ opened' = 0
    /\ css' = reset_css
    /\ stack' = <<PaneItem(target_pane)>>
    /\ pc' = "walk"
    /\ UNCHANGED <<inputVars, target_pane, error, chunks, esc_style, frameVars,
                   output, wrap>>

\* render_pane up to its call of _render_pane.
BeginPass ==
    /\ opened' = 0
    /\ chunks' = <<>>
    /\ css' = reset_css
    /\ stack' = <<PaneItem(target_pane)>>
    /\ pc' = "walk"
    /\ UNCHANGED <<inputVars, target_pane, error, esc_style, frameVars, output, wrap>>

RenderPane ==
    /\ pc = "ready"
    /\ BeginPass

\* A further call of render_pane on the same Renderer.
RenderPaneAgain ==
    /\ pc = "done"
    /\ Len(output) < MaxPasses
    /\ BeginPass

\* tpl.substitute(panes=''.join(self.chunks), css=self.render_css(), ...)
OpenHtml(c) ==
    "<span "
    \o JoinStr(" ", (IF c.v # <<>> THEN <<"class=\"" \o JoinStr(" ", c.v) \o "\"">> ELSE <<>>)
                    \o (IF c.d # <<>> THEN <<"data-seq=\"" \o JoinStr("", c.d) \o "\"">> ELSE <<>>))
    \o ">"
Html(c) ==
    CASE c.k = "open" -> <<OpenHtml(c)>>
      [] c.k = "close" -> <<"</" \o c.v[1] \o ">">>
      [] OTHER -> c.v
Document(chunks_, css_) ==
    [panes |-> Concat([i \in 1..Len(chunks_) |-> Html(chunks_[i])]),
     css |-> render_css(css_)]

\* render_pane after _render_pane has returned.
Finish ==
    /\ pc = "walk"
    /\ stack = <<>>
    /\ output' = Append(output, Document(chunks, css))
    /\ pc' = "done"
    /\ UNCHANGED <<inputVars, target_pane, selfVars, stack, frameVars, wrap>>

\* ----------------------------------------------------------- _render_pane
\* ChildItems with a child's offset compared with the window's origin
\* instead of the offset of its parent.
ChildItemsFromOrigin(parent, p) ==
    (IF p.x # 0 /\ p.x > 0 THEN <<SepItem(p, FALSE, p.size[2])>> ELSE <<>>)
    \o (IF p.y # 0 /\ p.y > 0 THEN <<SepItem(p, TRUE, p.size[1])>> ELSE <<>>)
    \o <<PaneItem(p)>>

\* What the loop over the children does for one child: the dividers that
\* precede it, then the child.
ChildItems(parent, p) ==
    (IF p.x # 0 /\ p.x > parent.x THEN <<SepItem(p, FALSE, p.size[2])>> ELSE <<>>)
    \o (IF p.y # 0 /\ p.y > parent.y THEN <<SepItem(p, TRUE, p.size[1])>> ELSE <<>>)
    \o <<PaneItem(p)>>

\* A pane with sub-panes: the container is opened; its children, their
\* dividers and the closing of the container are what comes next.
RenderSplit ==
    /\ pc = "walk"
    /\ stack # <<>>
    /\ Head(stack).op = "pane"
    /\ Head(stack).pane.panes # <<>>
    /\ LET p == Head(stack).pane
       IN /\ chunks' = Append(chunks, Raw(IF p.vertical THEN "<div class=\"v\">"
                                                        ELSE "<div class=\"h\">"))
          /\ stack' = Concat([i \in 1..Len(p.panes) |-> ChildItems(p, p.panes[i])])
                      \o <<EndItem(p)>> \o Tail(stack)
    /\ UNCHANGED <<inputVars, target_pane, pc, error, opened, css, esc_style,
                   frameVars, output, wrap>>

EndSplit ==
    /\ pc = "walk"
    /\ stack # <<>>
    /\ Head(stack).op = "end"
    /\ chunks' = Append(chunks, Raw("</div>"))
    /\ stack' = Tail(stack)
    /\ UNCHANGED <<inputVars, target_pane, pc, error, opened, css, esc_style,
                   frameVars, output, wrap>>

GlyphH == "<span class=\"u ns\" data-glyph=\"&#x2500\"> </span>"
GlyphV == "<span class=\"u ns\" data-glyph=\"&#x2502\"> </span>"

_add_separator(vertical, n) ==
    LET cls == IF vertical THEN "v" ELSE "h"
        rep == IF vertical THEN <<GlyphH>> ELSE <<GlyphV, NL>>
    IN << Put(<<Raw("<div class=\"" \o cls \o " sep\"><pre>")>>),
          Open(None, None, <<>>, ""),
          Put(<<Text(Concat(Repeat(rep, n)))>>),
          Close(FALSE),
          Put(<<Raw("</pre></div>")>>) >>

AddSeparator ==
    /\ pc = "walk"
    /\ stack # <<>>
    /\ Head(stack).op = "sep"
    /\ LET r == Run(Self, _add_separator(Head(stack).vertical, Head(stack).n))
       IN /\ SetSelf(r)
          /\ pc' = IF Failed(r) THEN "failed" ELSE "walk"
    /\ stack' = Tail(stack)
    /\ UNCHANGED <<inputVars, target_pane, frameVars, output, wrap>>

PaneDiv(p) ==
    "<div id=\"p" \o ToString(p.identifier) \o "\" class=\"pane\" data-size=\""
    \o ToString(p.size[1]) \o "," \o ToString(p.size[2]) \o "\">"

\* A pane without sub-panes: its block is opened and _render starts (the
\* lines before its loop over the logical lines).
RenderLeaf ==
    /\ pc = "walk"
    /\ stack # <<>>
    /\ Head(stack).op = "pane"
    /\ Head(stack).pane.panes = <<>>
    /\ LET p == Head(stack).pane
       IN /\ chunks' = chunks \o <<Raw(PaneDiv(p)), Raw("<pre>")>>
          /\ lines' = Split(contents[p.identifier], NL)
          /\ size' = p.size
    /\ cur_fg' = None
    /\ cur_bg' = None
    /\ esc_style' = <<>>
    /\ line_c' = 0
    /\ line_i' = 0
    /\ last_i' = 0
    /\ line_l' = 0
    /\ stack' = Tail(stack)
    /\ pc' = "line"
    /\ UNCHANGED <<inputVars, target_pane, error, opened, css, output, wrap>>

\* ---------------------------------------------------------------- _render
\* _wrap_line as _render calls it: the slices and breaks it appends, its
\* count of breaks, and the run and column count it hands back.
WrapOf(c, length, maxlength) == _wrap_line(<<>>, c, length, maxlength)

\* One turn of the loop over the SGR matches of a logical line: the run
\* before the match is wrapped and written, the sequence is parsed and a
\* wrapper for the new style state is opened.
MatchOf(line, last_i_, line_l_, line_c_, fg, bg, style, size_) ==
    LET m == NextMatch(line, last_i_)
        c == PySlice(line, last_i_, m.start)
        f == WrapOf(c, line_l_ + Len(c), size_[1])
        st == parse_escape(m.group, fg, bg, style)
    IN [calls |-> When(c # <<>> /\ last_i_ = 0, <<OpenIfClosed(fg, bg)>>)
                  \o <<Put(f.chunks), Put(<<Text(_escape_text(f.line))>>)>>
                  \o When(last_i_ = 0, <<Close(FALSE)>>)
                  \o <<SetStyle(st.style), Close(FALSE),
                       Open(st.fg, st.bg, m.group, "")>>,
        line_c |-> line_c_ + f.line_c,
        line_l |-> f.length,
        last_i |-> m.end,
        cur_fg |-> st.fg,
        cur_bg |-> st.bg]

RenderMatch ==
    /\ pc = "line"
    /\ HasMatch(lines[line_i + 1], last_i)
    /\ LET t == MatchOf(lines[line_i + 1], last_i, line_l, line_c,
                        cur_fg, cur_bg, esc_style, size)
           r == Run(Self, t.calls)
       IN /\ SetSelf(r)
          /\ line_c' = t.line_c
          /\ line_l' = t.line_l
          /\ last_i' = t.last_i
          /\ cur_fg' = t.cur_fg
          /\ cur_bg' = t.cur_bg
          /\ pc' = IF Failed(r) THEN "failed" ELSE "line"
    /\ UNCHANGED <<inputVars, target_pane, stack, size, lines, line_i, output, wrap>>

\* TailOf padding only the lines that end before the last row of the pane.
TailOfBeforeLastRow(line, last_i_, line_l_, line_c_, fg, bg, size_, isLast) ==
    LET c0 == PySliceFrom(line, last_i_)
        c_len == Len(c0)
        enter == c0 # <<>> \/ c_len # size_[1]
        f == IF enter THEN WrapOf(c0, line_l_ + c_len, size_[1])
             ELSE WrapFrame(<<>>, c0, line_l_ + c_len)
        counted == enter /\ line_c_ + f.line_c < size_[2] - 1
        pad == IF counted THEN Repeat(" ", size_[1] - f.length) ELSE <<>>
        brk == f.line # <<>> \/ ~isLast
    IN [calls |-> When(enter, <<OpenIfClosed(fg, bg), Put(f.chunks)>>)
                  \o <<Put(<<Text(_escape_text(f.line))>>), Close(TRUE)>>
                  \o When(pad # <<>>, <<Open(None, None, <<>>, "ns"),
                                        Put(<<Text(pad)>>), Close(FALSE)>>)
                  \o When(brk, <<Put(<<Text(<<NL>>)>>)>>),
        line_l |-> f.length,
        line_c |-> (IF counted THEN line_c_ + f.line_c ELSE line_c_)
                   + (IF brk THEN 1 ELSE 0),
        pad |-> pad]

\* TailOf writing the padding in a wrapper without the 'ns' class.
TailOfSelectablePad(line, last_i_, line_l_, line_c_, fg, bg, size_, isLast) ==
    LET c0 == PySliceFrom(line, last_i_)
        c_len == Len(c0)
        enter == c0 # <<>> \/ c_len # size_[1]
        f == IF enter THEN WrapOf(c0, line_l_ + c_len, size_[1])
             ELSE WrapFrame(<<>>, c0, line_l_ + c_len)
        counted == enter /\ line_c_ + f.line_c < size_[2]
        pad == IF counted THEN Repeat(" ", size_[1] - f.length) ELSE <<>>
        brk == f.line # <<>> \/ ~isLast
    IN [calls |-> When(enter, <<OpenIfClosed(fg, bg), Put(f.chunks)>>)
                  \o <<Put(<<Text(_escape_text(f.line))>>), Close(TRUE)>>
                  \o When(pad # <<>>, <<Open(None, None, <<>>, ""),
                                        Put(<<Text(pad)>>), Close(FALSE)>>)
                  \o When(brk, <<Put(<<Text(<<NL>>)>>)>>),
        line_l |-> f.length,
        line_c |-> (IF counted THEN line_c_ + f.line_c ELSE line_c_)
                   + (IF brk THEN 1 ELSE 0),
        pad |-> pad]

\* The rest of the turn for one logical line, after the loop over its
\* matches: the last run, the right-padding and the line break.
TailOf(line, last_i_, line_l_, line_c_, fg, bg, size_, isLast) ==
    LET c0 == PySliceFrom(line, last_i_)
        c_len == Len(c0)
        enter == c0 # <<>> \/ c_len # size_[1]
        f == IF enter THEN WrapOf(c0, line_l_ + c_len, size_[1])
             ELSE WrapFrame(<<>>, c0, line_l_ + c_len)
        counted == enter /\ line_c_ + f.line_c < size_[2]
        pad == IF counted THEN Repeat(" ", size_[1] - f.length) ELSE <<>>
        brk == f.line # <<>> \/ ~isLast
    IN [calls |-> When(enter, <<OpenIfClosed(fg, bg), Put(f.chunks)>>)
                  \o <<Put(<<Text(_escape_text(f.line))>>), Close(TRUE)>>
                  \o When(pad # <<>>, <<Open(None, None, <<>>, "ns"),
                                        Put(<<Text(pad)>>), Close(FALSE)>>)
                  \o When(brk, <<Put(<<Text(<<NL>>)>>)>>),
        line_l |-> f.length,
        line_c |-> (IF counted THEN line_c_ + f.line_c ELSE line_c_)
                   + (IF brk THEN 1 ELSE 0),
        pad |-> pad]

RenderTail ==
    /\ pc = "line"
    /\ ~HasMatch(lines[line_i + 1], last_i)
    /\ LET isLast == ~(line_i < Len(lines) - 1)
           t == TailOf(lines[line_i + 1], last_i, line_l, line_c,
                       cur_fg, cur_bg, size, isLast)
           r == Run(Self, t.calls)
       IN /\ SetSelf(r)
          /\ line_c' = t.line_c
          /\ pc' = IF Failed(r) THEN "failed"
                   ELSE IF isLast THEN "fill" ELSE "line"
          /\ line_i' = IF isLast THEN line_i ELSE line_i + 1
          /\ last_i' = IF isLast THEN last_i ELSE 0
          /\ line_l' = IF isLast THEN t.line_l ELSE 0
    /\ UNCHANGED <<inputVars, target_pane, stack, size, lines, cur_fg, cur_bg,
                   output, wrap>>

\* The blank rows that fill the pane up to its height.
FillRows(n, width) == Concat(Repeat(<<Text(Repeat(" ", width)), Text(<<NL>>)>>, n))

FillOf(line_c_, size_) ==
    When(line_c_ < size_[2],
         <<Open(None, None, <<>>, "ns"),
           Put(FillRows(size_[2] - line_c_, size_[1])),
           Close(TRUE)>>)
    \o <<Put(<<Raw("</pre>")>>)>>

\* The end of _render, after the loop over the lines, and the closing of
\* the pane's block in _render_pane.
RenderFill ==
    /\ pc = "fill"
    /\ LET r == Run(Self, FillOf(line_c, size) \o <<Put(<<Raw("</div>")>>)>>)
       IN /\ SetSelf(r)
          /\ pc' = IF Failed(r) THEN "failed" ELSE "walk"
    /\ line_c' = IF line_c < size[2] THEN size[2] ELSE line_c
    /\ UNCHANGED <<inputVars, target_pane, stack, size, lines, line_i, last_i,
                   line_l, cur_fg, cur_bg, output, wrap>>

\* ------------------------------------------------------ the specifications
\* A window rendered from the command line, then rendered again.
Next ==
    \/ Main
    \/ RenderPane
    \/ RenderPaneAgain
    \/ RenderSplit
    \/ AddSeparator
    \/ RenderLeaf
    \/ RenderMatch
    \/ RenderTail
    \/ RenderFill
    \/ EndSplit
    \/ Finish
Spec == Init /\ [][Next]_vars

\* One leaf pane rendered once.
NextLeaf ==
    \/ Main
    \/ RenderPane
    \/ RenderLeaf
    \/ RenderMatch
    \/ RenderTail
    \/ RenderFill
    \/ Finish
SpecLeaf == InitLeaf /\ [][NextLeaf]_vars
SpecStyle == InitStyle /\ [][NextLeaf]_vars

\* ------------------------------------------------ _wrap_line taken alone
WrapRuns == UNION {[1..n -> {"a", "<"}] : n \in 0..MaxRun}

InitWrap ==
    /\ \E run \in WrapRuns, w \in 1..MaxW :
         \E col \in 0..w :
            wrap = [pc |-> "loop", run |-> run, col |-> col, maxlength |-> w,
                    f |-> WrapFrame(<<>>, run, col + Len(run))]
    /\ root = Leaf(0, 0, 0, 1, 1)
    /\ contents = [i \in PaneIds |-> <<>>]
    /\ py = 3
    /\ pane = <<>>
    /\ InitRenderer

WrapStep ==
    /\ wrap.pc = "loop"
    /\ WrapTest(wrap.f, wrap.maxlength)
    /\ wrap' = [wrap EXCEPT !.f = WrapBody(@, wrap.maxlength)]
    /\ UNCHANGED <<inputVars, target_pane, pc, selfVars, stack, frameVars, output>>

WrapReturn ==
    /\ wrap.pc = "loop"
    /\ ~WrapTest(wrap.f, wrap.maxlength)
    /\ wrap' = [wrap EXCEPT !.pc = "done"]
    /\ UNCHANGED <<inputVars, target_pane, pc, selfVars, stack, frameVars, output>>

NextWrap ==
    \/ WrapStep
    \/ WrapReturn
SpecWrap == InitWrap /\ [][NextWrap]_vars

\* _wrap_line taken alone, the width 0 included.  For a width of 0 the
\* loop is followed for MaxTurns iterations.
InitWrapAnyWidth ==
    /\ \E run \in WrapRuns, w \in 0..MaxW :
         \E col \in 0..w :
            wrap = [pc |-> "loop", run |-> run, col |-> col, maxlength |-> w,
                    f |-> WrapFrame(<<>>, run, col + Len(run))]
    /\ root = Leaf(0, 0, 0, 1, 1)
    /\ contents = [i \in PaneIds |-> <<>>]
    /\ py = 3
    /\ pane = <<>>
    /\ InitRenderer

WrapTurn ==
    /\ wrap.maxlength = 0 => wrap.f.line_c < MaxTurns
    /\ WrapStep

NextWrapAnyWidth ==
    \/ WrapTurn
    \/ WrapReturn
SpecWrapAnyWidth == InitWrapAnyWidth /\ [][NextWrapAnyWidth]_vars

\* ------------------------------------------------- reading the output back
\* The character data written so far, tags left out.
RECURSIVE CellsOf(_)
CellsOf(cs) ==
    IF cs = <<>> THEN <<>>
    ELSE (IF Head(cs).k = "text" THEN Head(cs).v ELSE <<>>) \o CellsOf(Tail(cs))

RECURSIVE Count(_, _)
Count(list, x) ==
    IF list = <<>> THEN 0
    ELSE (IF Head(list) = x THEN 1 ELSE 0) + Count(Tail(list), x)

\* The line breaks written so far in the pane's <pre> block.
Breaks(cs) == Count(CellsOf(cs), NL)
\* The rows written so far: the cells between the breaks.  The last one is
\* the row still open (empty when the data ends with a break).
Rows(cs) == Split(CellsOf(cs), NL)
ClosedRows(cs) == SubSeq(Rows(cs), 1, Len(Rows(cs)) - 1)

\* The text of the one pane of SpecLeaf, SpecStyle.
TheText == contents[0]
IsPlain(text) == \A i \in 1..Len(text) : text[i] \notin {ESC, NL}

\* ----------------------------------------------------------------- claims

\* C1 (as claimed): the block of a leaf pane of size (w,h) holds exactly h
\* line breaks, whatever the text.  The code breaks this: wraps of a line's
\* last run that would pass the height are written but not counted, and
\* lines beyond the height still get their break.
C1_ExactlyHBreaks ==
    pc = "done" => Breaks(chunks) = root.size[2]

\* C2 (as claimed): every row of the block is exactly w columns wide.  The
\* code breaks this: the padding of a last line that gets no break and the
\* first blank row of the under-fill land on one row.
C2_RowsExactlyW ==
    pc = "done" =>
        \A i \in 1..Len(ClosedRows(chunks)) : Len(ClosedRows(chunks)[i]) = root.size[1]

\* C3: a run of length k > w wrapped from column 0 comes out as ceil(k/w)
\* slices (the run handed back being the last), each at most w long, whose
\* concatenation is the escaped run; from a column c <= w the first slice
\* is w - c long and the concatenation is again the escaped run.
WrapSlices(f) ==
    [i \in 1..(f.line_c + 1) |->
        IF i <= f.line_c THEN f.chunks[2 * i - 1].v ELSE _escape_text(f.line)]
CeilDiv(a, b) == (a + b - 1) \div b
C3_WrapCorrect ==
    (wrap.pc = "done" /\ Len(wrap.run) > wrap.maxlength) =>
        LET slices == WrapSlices(wrap.f)
        IN /\ Len(wrap.f.chunks) = 2 * wrap.f.line_c
           /\ \A i \in 1..wrap.f.line_c : wrap.f.chunks[2 * i] = Text(<<NL>>)
           /\ Concat(slices) = _escape_text(wrap.run)
           /\ \A i \in 1..Len(slices) : Len(slices[i]) <= wrap.maxlength
           /\ Len(slices[1]) = wrap.maxlength - wrap.col
           /\ wrap.col = 0 => Len(slices) = CeilDiv(Len(wrap.run), wrap.maxlength)
C3_Witness ==
    /\ wrap.pc = "done"
    /\ wrap.col = 0
    /\ Len(wrap.run) = 2 * wrap.maxlength + 1
    /\ wrap.f.line_c = 2
    /\ Len(wrap.f.line) = 1

\* What a turn of the loop over the lines has just written.
Written == SubSeq(chunks', Len(chunks) + 1, Len(chunks'))
\* The right-padding among it: the cells of the run in the 'ns' wrapper.
PaddingIn(cs) ==
    IF \E i \in 1..(Len(cs) - 1) : cs[i] = OpenTag(<<"ns">>, <<>>)
    THEN cs[(CHOOSE i \in 1..(Len(cs) - 1) : cs[i] = OpenTag(<<"ns">>, <<>>)) + 1].v
    ELSE <<>>
\* A logical line has just been ended by the turn.
LineEnds == pc = "line" /\ ~HasMatch(lines[line_i + 1], last_i) /\ pc' # "failed"
\* The index of the row the line ends on, and the columns of that row.
BreakWritten == chunks'[Len(chunks')] = Text(<<NL>>)
EndRow == Breaks(chunks') - (IF BreakWritten THEN 1 ELSE 0)
EndRowCells == Rows(chunks')[EndRow + 1]

\* C4 (as claimed): a line that ends on the pane's last row, h-1, is never
\* followed by right-padding.
C4_LastRowNeverPadded ==
    [][(LineEnds /\ EndRow = size[2] - 1) => PaddingIn(Written) = <<>>]_vars

\* C4 (amended): a line that ends on any row of the pane, the last row h-1
\* included, is right-padded to exactly w columns.
C4_RowsOfPanePadded ==
    [][(LineEnds /\ EndRow <= size[2] - 1) =>
            /\ Len(EndRowCells) = size[1]
            /\ EndRowCells = SubSeq(EndRowCells, 1, size[1] - Len(PaddingIn(Written)))
                             \o PaddingIn(Written)
            /\ \A i \in 1..Len(PaddingIn(Written)) : PaddingIn(Written)[i] = " "]_vars
\* A line of one character has ended on the last of two rows and was padded.
C4_Witness ==
    /\ pc = "fill"
    /\ size[2] = 2
    /\ size[1] = 3
    /\ Breaks(chunks) = 2
    /\ Len(chunks) > 4
    /\ chunks[Len(chunks)] = Text(<<NL>>)
    /\ chunks[Len(chunks) - 2] = Text(<<" ", " ">>)
    /\ chunks[Len(chunks) - 3] = OpenTag(<<"ns">>, <<>>)

\* C5: k plain characters, 0 < k < w, in a pane of size (w,1) come out as
\* one row: the characters in a wrapper without class, then w-k spaces in a
\* wrapper of class 'ns', then the break; no colour class is registered.
C5_PlainLine ==
    (pc = "done" /\ root.size[2] = 1 /\ IsPlain(TheText)
     /\ 0 < Len(TheText) /\ Len(TheText) < root.size[1]) =>
        /\ chunks = << Raw(PaneDiv(root)), Raw("<pre>"),
                       OpenTag(<<>>, <<>>), Text(_escape_text(TheText)), CloseTag("span"),
                       OpenTag(<<"ns">>, <<>>),
                       Text(Repeat(" ", root.size[1] - Len(TheText))),
                       CloseTag("span"),
                       Text(<<NL>>), Raw("</pre>"), Raw("</div>") >>
        /\ Keys(css) = <<"su", "si", "sb", "ns">>
C5_Witness ==
    /\ pc = "done"
    /\ root.size = <<3, 1>>
    /\ TheText = <<"<", "a">>
    /\ Len(ClosedRows(chunks)) = 1
    /\ ClosedRows(chunks)[1] = <<"&lt;", "a", " ">>

\* The wrapper that the SGR sequence just read has opened: it is the last
\* chunk, and cur_fg, cur_bg and esc_style are the style state it was
\* opened for.
JustOpened == pc = "line" /\ last_i > 0 /\ chunks[Len(chunks)].k = "open"
OpenedClasses == chunks[Len(chunks)].v
BoldNoReverse == Contains(esc_style, 1) /\ ~Contains(esc_style, 7)

\* C6: under bold without reverse, a foreground code c in 0..7
\* gives the class f<c+8> and no 'sb'; every code c >= 16 gives the class
\* f<c> together with 'sb'.
C6_BrightBold ==
    (JustOpened /\ BoldNoReverse /\ IsInt(cur_fg)) =>
        /\ cur_fg[1] \in 0..7 =>
              /\ Contains(OpenedClasses, "f" \o ToString(cur_fg[1] + 8))
              /\ ~Contains(OpenedClasses, "sb")
        /\ cur_fg[1] >= 16 =>
              /\ Contains(OpenedClasses, "f" \o ToString(cur_fg[1]))
              /\ Contains(OpenedClasses, "sb")

\* Bold, then the palette colour 39: the wrapper carries f39 and no 'sb'.
C6_Witness ==
    /\ JustOpened
    /\ esc_style = <<1>>
    /\ cur_fg = <<39>>
    /\ chunks[Len(chunks)] = OpenTag(<<"f39">>, <<"3", "8", ";", "5", ";", "3", "9">>)

\* C7: in a pass the registry holds the four static rules and then one rule
\* for each colour class the opened wrappers carry, in the order of first
\* use, however often a combination is opened.
StaticKeys == <<"su", "si", "sb", "ns">>
IsStaticKey(key) == Contains(StaticKeys, key)
RECURSIVE ColourClasses(_)
ColourClasses(cs) ==
    IF cs = <<>> THEN <<>>
    ELSE (IF Head(cs).k = "open"
          THEN SelectSeq(Head(cs).v, LAMBDA key : ~IsStaticKey(key)) ELSE <<>>)
         \o ColourClasses(Tail(cs))
RECURSIVE FirstUses(_, _)
FirstUses(list, seen) ==
    IF list = <<>> THEN seen
    ELSE FirstUses(Tail(list),
                   IF Contains(seen, Head(list)) THEN seen ELSE Append(seen, Head(list)))
InPass == pc \in {"walk", "line", "fill", "done"}
C7_OneRulePerKey ==
    InPass => Keys(css) = FirstUses(ColourClasses(chunks), StaticKeys)
\* A colour class is carried by two wrappers of a finished pass.
C7_Witness ==
    /\ pc = "done"
    /\ \E i \in 1..Len(chunks) : \E j \in (i + 1)..Len(chunks) :
          /\ chunks[i].k = "open"
          /\ chunks[j].k = "open"
          /\ \E key \in {"f1", "f9", "f33", "b4"} :
                Contains(chunks[i].v, key) /\ Contains(chunks[j].v, key)
    /\ Len(css) = 5

\* C8: every call of render_pane on a Renderer returns what the first call
\* returned, the order of the stylesheet rules included.
C8_Deterministic ==
    \A i \in 1..Len(output) : output[i] = output[1]
\* A window of three panes with styled text has been rendered twice.
C8_Witness ==
    /\ Len(output) = 2
    /\ pane = <<>>
    /\ Len(pane_list(root)) = 3
    /\ Len(css) > 4
    /\ esc_style # <<>>

\* C9 (as claimed): a pane index i selects the i-th leaf when 0 <= i < n
\* and fails for every other integer.  The code breaks this: panes[pane]
\* takes an index -n..-1 from the end of the list.
C9_IndexOutsideFails ==
    (pc # "main" /\ pane # <<>>) =>
        LET panes == pane_list(root)
        IN IF 0 <= pane[1] /\ pane[1] < Len(panes)
           THEN target_pane = panes[pane[1] + 1]
           ELSE pc = "failed" /\ error = "IndexError" /\ chunks = <<>>
\* The index -1 has selected the last leaf of a window of three panes, and
\* that leaf has been rendered.
C9_Witness ==
    /\ pane = <<0 - 1>>
    /\ Len(pane_list(root)) = 3
    /\ target_pane = pane_list(root)[3]
    /\ Len(output) = 1

\* C10 (as claimed): only ESC [ <numbers and semicolons> m is consumed; the
\* characters of any other ESC [ ... come out as text.  The code breaks
\* this: ESC [, anything but 'm', then 'm' is consumed.
IsSGRParams(str) == \A i \in 1..Len(str) : str[i] \in Digits \cup {";"}
SGRLenAt(text) ==
    IF Len(text) >= 3 /\ text[1] = ESC /\ text[2] = "["
       /\ \E j \in 3..Len(text) : text[j] = "m" /\ IsSGRParams(SubSeq(text, 3, j - 1))
    THEN CHOOSE j \in 3..Len(text) : text[j] = "m" /\ IsSGRParams(SubSeq(text, 3, j - 1))
    ELSE 0
\* The text without its SGR sequences and line feeds.
RECURSIVE Literal(_)
Literal(text) ==
    IF text = <<>> THEN <<>>
    ELSE IF SGRLenAt(text) > 0 THEN Literal(SubSeq(text, SGRLenAt(text) + 1, Len(text)))
    ELSE IF Head(text) = NL THEN Literal(Tail(text))
    ELSE <<Head(text)>> \o Literal(Tail(text))
\* The cells written that are neither filler nor breaks.
SourceCells(cs) == SelectSeq(CellsOf(cs), LAMBDA cell : cell \notin {" ", NL})
C10_OnlySGRConsumed ==
    pc = "done" => SourceCells(chunks) = _escape_text(Literal(TheText))
\* ESC[2J followed by text with an 'm' has been rendered: the wrapper
\* carries "2Ja" as its sequence, and no cell holds the 'J' or the 'a'.
C10_Witness ==
    /\ pc = "done"
    /\ TheText = <<ESC, "[", "2", "J", "a", "m">>
    /\ \E i \in 1..Len(chunks) : chunks[i].k = "open" /\ chunks[i].d = <<"2", "J", "a">>
    /\ SourceCells(chunks) = <<>>

\* C11 (as claimed): a leaf pane of size (w,h) with empty text renders
\* without error as h rows, each exactly w spaces followed by a break, with
\* nothing written before them.  The code breaks this: the empty line is
\* right-padded first and gets no break, so the first row holds 2w spaces.
C11_EmptyTextBlank ==
    (pc = "done" /\ TheText = <<>>) =>
        /\ error = "none"
        /\ ClosedRows(chunks) = [i \in 1..root.size[2] |-> Repeat(" ", root.size[1])]
        /\ Rows(chunks)[Len(Rows(chunks))] = <<>>
\* The empty text in a pane (2,2): the first row is four spaces wide, two
\* of them the padding of the empty line.
C11_Witness ==
    /\ pc = "done"
    /\ TheText = <<>>
    /\ root.size = <<2, 2>>
    /\ ClosedRows(chunks) = << <<" ", " ", " ", " ">>, <<" ", " ">> >>
    /\ chunks[3] = OpenTag(<<>>, <<>>)
    /\ chunks[6] = OpenTag(<<"ns">>, <<>>)
    /\ chunks[7] = Text(<<" ", " ">>)

\* C12 (as claimed): under bold without reverse, a wrapper lacks the class
\* 'sb' only when the foreground is a basic code 0..7; with no foreground
\* and with the default marker 39 it carries 'sb'.  The code breaks this:
\* 'sb' is removed for no foreground, for every code below 16 and for 39.
C12_BoldKeptWithoutColour ==
    (JustOpened /\ BoldNoReverse) =>
        (Contains(OpenedClasses, "sb") <=> ~(IsInt(cur_fg) /\ cur_fg[1] \in 0..7))
\* ESC[1m alone has opened a wrapper: bold, no foreground, no class at all.
C12_Witness ==
    /\ JustOpened
    /\ esc_style = <<1>>
    /\ cur_fg = None
    /\ cur_bg = None
    /\ chunks[Len(chunks)] = OpenTag(<<>>, <<"1">>)

\* C13 (as claimed): under bold and reverse, with a foreground and a
\* background that differ, 'sb' is dropped exactly when
\* the unswapped foreground is a basic code 0..7, that code is the one
\* promoted by 8, and a basic background swapped into the foreground
\* position is not promoted.  The code breaks this: open swaps first and
\* decides both from the swapped foreground.
BoldReverse == Contains(esc_style, 1) /\ Contains(esc_style, 7)
IsBasic(c) == IsInt(c) /\ c[1] \in 0..7
C13_DecidedFromUnswapped ==
    (JustOpened /\ BoldReverse /\ cur_fg # cur_bg) =>
        /\ Contains(OpenedClasses, "sb") <=> ~IsBasic(cur_fg)
        /\ IsBasic(cur_fg) =>
              \E prefix \in {"f", "b"} :
                 Contains(OpenedClasses, prefix \o ToString(cur_fg[1] + 8))
        /\ (~IsBasic(cur_fg) /\ IsBasic(cur_bg)) =>
              ~Contains(OpenedClasses, "f" \o ToString(cur_bg[1] + 8))
\* Bold and reverse, then a blue background and no foreground: the wrapper
\* carries the promoted f12 and no 'sb'.
C13_Witness ==
    /\ JustOpened
    /\ esc_style = <<1, 7>>
    /\ cur_fg = None
    /\ cur_bg = <<4>>
    /\ chunks[Len(chunks)] = OpenTag(<<"f12">>, <<"4", "4">>)

\* C14: wrappers are never nested and always balanced: during a pass the
\* counter 'opened' is 0 or 1 and equals the open tags written less the
\* close tags written; it is 0 at the start and the end of every logical
\* line, when _render and _add_separator have returned and when the pass
\* ends, where the tags written are as many of either kind.
RECURSIVE CountKind(_, _)
CountKind(cs, kind) ==
    IF cs = <<>> THEN 0
    ELSE (IF Head(cs).k = kind THEN 1 ELSE 0) + CountKind(Tail(cs), kind)
\* The tags of the buffer alternate: an open tag is written only with no
\* wrapper open (depth 0), a close tag only with one open.
RECURSIVE Alternates(_, _)
Alternates(cs, depth) ==
    IF cs = <<>> THEN TRUE
    ELSE IF Head(cs).k = "open" THEN depth = 0 /\ Alternates(Tail(cs), 1)
    ELSE IF Head(cs).k = "close" THEN depth = 1 /\ Alternates(Tail(cs), 0)
    ELSE Alternates(Tail(cs), depth)
C14_BalancedNeverNested ==
    InPass =>
        /\ opened \in {0, 1}
        /\ Alternates(chunks, 0)
        /\ CountKind(chunks, "open") = CountKind(chunks, "close") + opened
        /\ (pc \in {"walk", "fill", "done"} \/ last_i = 0) => opened = 0
\* A window of three panes with styled text and two dividers is done:
\* seven wrappers at least, all closed.
C14_Witness ==
    /\ pc = "done"
    /\ Len(pane_list(root)) = 3
    /\ pane = <<>>
    /\ CountKind(chunks, "open") >= 7
    /\ CountKind(chunks, "close") = CountKind(chunks, "open")
    /\ \E i \in 1..Len(chunks) : chunks[i].k = "open" /\ chunks[i].d # <<>>

\* C15 (as claimed): once h rows have been written no later line and no
\* later wrap writes or counts a break: the row counter line_c and the
\* breaks written never exceed the pane height h.  The code breaks this:
\* the wraps of a run before a match and the break after a line are
\* written and counted whatever the counter holds.
C15_NeverBeyondHeight ==
    pc \in {"line", "fill", "done"} =>
        /\ line_c <= size[2]
        /\ Breaks(chunks) <= size[2]
\* Two lines in a pane of one row: two breaks written, two rows counted.
C15_Witness ==
    /\ pc = "done"
    /\ size = <<1, 1>>
    /\ TheText = <<"a", NL, "a">>
    /\ line_c = 2
    /\ Breaks(chunks) = 2

\* C16 (as claimed): a leaf starts with no foreground, no background, no
\* attributes and no wrapper open, and the wrapper of a divider carries no
\* class.  The code breaks the second half: _add_separator opens its
\* wrapper under the esc_style the pane rendered before it has left.
SepDivs == {Raw("<div class=\"v sep\"><pre>"), Raw("<div class=\"h sep\"><pre>")}
LeafStarts == pc = "line" /\ chunks # <<>> /\ chunks[Len(chunks)] = Raw("<pre>")
C16_NothingInherited ==
    /\ LeafStarts =>
          cur_fg = None /\ cur_bg = None /\ esc_style = <<>> /\ opened = 0
    /\ InPass =>
          \A i \in 1..(Len(chunks) - 1) :
             chunks[i] \in SepDivs => chunks[i + 1] = OpenTag(<<>>, <<>>)
\* A pane whose text ends in italics has been rendered, then a divider:
\* the divider's wrapper carries 'si'.
C16_Witness ==
    /\ pc = "walk"
    /\ Len(chunks) > 5
    /\ chunks[Len(chunks)] = Raw("</pre></div>")
    /\ chunks[Len(chunks) - 4] \in SepDivs
    /\ chunks[Len(chunks) - 3] = OpenTag(<<"si">>, <<>>)
    /\ esc_style = <<3>>

\* C17: a split with n children laid out along its axis is written with
\* n-1 dividers, none before the first child and one right before each
\* later child: vertical bars over the child's height in a side-by-side
\* split, horizontal bars over the child's width in a stacked one; so it is
\* for a split at the origin and for a split nested at an offset.
DividerOf(split, child) ==
    IF split.vertical
    THEN <<Raw("<div class=\"v sep\"><pre>"), Text(Concat(Repeat(<<GlyphH>>, child.size[1])))>>
    ELSE <<Raw("<div class=\"h sep\"><pre>"), Text(Concat(Repeat(<<GlyphV, NL>>, child.size[2])))>>
RECURSIVE PanesAndDividers(_)
PanesAndDividers(p) ==
    IF p.panes = <<>> THEN <<Raw(PaneDiv(p))>>
    ELSE Concat([i \in 1..Len(p.panes) |->
                    (IF i > 1 THEN DividerOf(p, p.panes[i]) ELSE <<>>)
                    \o PanesAndDividers(p.panes[i])])
\* The blocks of the panes and the dividers (block and glyphs) as written.
LeafDivs == {Raw(PaneDiv(pane_list(root)[i])) : i \in 1..Len(pane_list(root))}
RECURSIVE WrittenPanesAndDividers(_)
WrittenPanesAndDividers(cs) ==
    IF cs = <<>> THEN <<>>
    ELSE IF Head(cs) \in SepDivs /\ Len(cs) >= 3
         THEN <<cs[1], cs[3]>> \o WrittenPanesAndDividers(Tail(cs))
    ELSE IF Head(cs) \in LeafDivs THEN <<Head(cs)>> \o WrittenPanesAndDividers(Tail(cs))
    ELSE WrittenPanesAndDividers(Tail(cs))
C17_DividersBetweenChildren ==
    pc = "done" => WrittenPanesAndDividers(chunks) = PanesAndDividers(target_pane)
\* A window of a pane beside a stacked pair is done: one divider of each
\* kind has been written.
C17_Witness ==
    /\ pc = "done"
    /\ pane = <<>>
    /\ Len(pane_list(root)) = 3
    /\ ~root.vertical
    /\ root.panes[2].x > 0
    /\ \A d \in SepDivs : \E i \in 1..Len(chunks) : chunks[i] = d

\* C18 (as claimed): open never fails; a wrapper opened with a truecolor
\* foreground is written and carries the registered key f-rgb_R_G_B.  The
\* code breaks this under Python 3: the range test fg < 16 is applied to
\* the triple and raises a TypeError.
C18_OpenNeverFails ==
    /\ error = "none"
    /\ pc # "failed"
    /\ (JustOpened /\ ~Contains(esc_style, 7) /\ IsRGB(cur_fg)) =>
          /\ Contains(OpenedClasses, CssKey("f", cur_fg))
          /\ HasKey(css, CssKey("f", cur_fg))
\* ESC[38;2;1;2;3m under Python 3: the key has been registered, no wrapper
\* has been written, and the pass has ended with a TypeError.
C18_Witness ==
    /\ py = 3
    /\ pc = "failed"
    /\ error = "TypeError"
    /\ HasKey(css, "f-rgb_1_2_3")
    /\ opened = 0
    /\ \A i \in 1..Len(chunks) : chunks[i].k # "open"
    /\ output = <<>>

\* C19 (as claimed): every iteration of the loop of _wrap_line strictly
\* shortens what remains, for every width w >= 0, and on return the
\* remaining column count is at most w.  The code breaks this for w = 0:
\* an iteration of the loop leaves the run and its length as they are.
C19_EveryTurnShortens ==
    [][/\ (wrap.pc = "loop" /\ wrap'.pc = "loop") => wrap'.f.length < wrap.f.length
       /\ wrap'.pc = "done" => wrap'.f.length <= wrap.maxlength]_vars
\* A run of two characters and a width of 0 after MaxTurns iterations: the
\* run and its length are what they were, the loop test still holds, and
\* one more iteration changes neither.
C19_Witness ==
    /\ wrap.pc = "loop"
    /\ wrap.maxlength = 0
    /\ Len(wrap.run) = 2
    /\ wrap.f.line_c = MaxTurns
    /\ wrap.f.line = wrap.run
    /\ wrap.f.length = 2
    /\ WrapTest(wrap.f, 0)
    /\ WrapBody(wrap.f, 0).line = wrap.f.line
    /\ WrapBody(wrap.f, 0).length = wrap.f.length

\* C20 (as claimed): a logical line that is not the last is followed by a
\* break, empty or not; an empty last line is not; a last line that holds
\* printable characters is, also when its text ends with an SGR sequence.
\* The code breaks the last part: the break depends on what follows the
\* line's last sequence, not on the line.
RECURSIVE Unmatched(_, _)
Unmatched(line, pos) ==
    IF HasMatch(line, pos)
    THEN PySlice(line, pos, NextMatch(line, pos).start)
         \o Unmatched(line, NextMatch(line, pos).end)
    ELSE PySliceFrom(line, pos)
TheLine == lines[line_i + 1]
IsLastLine == line_i = Len(lines) - 1
C20_BreakAfterPrintableLine ==
    [][LineEnds =>
          /\ ~IsLastLine => BreakWritten
          /\ (IsLastLine /\ TheLine = <<>>) => ~BreakWritten
          /\ (IsLastLine /\ Unmatched(TheLine, 0) # <<>>) => BreakWritten]_vars
\* The text a ESC[1m in a pane (3,1): no break after the line, and its one
\* row holds the 'a', two spaces of padding and the three of the filler.
C20_Witness ==
    /\ pc = "done"
    /\ TheText = <<"a">> \o SGR(<<"1">>)
    /\ root.size = <<3, 1>>
    /\ ClosedRows(chunks) = << <<"a", " ", " ", " ", " ", " ">> >>

====
